---- MODULE Spec2Model ----
(***************************************************************************)
(* django-rest-form-fields: the clean -> to_python -> validate pipeline of *)
(* src/django_rest_form_fields/fields.py, one clean invocation at a time   *)
(* on one constructed field.                                               *)
(*                                                                         *)
(* Python values are tagged records [t, v].  A str is a sequence of        *)
(* one-character strings.  A number is sign, magnitude in base 2^16 and a  *)
(* half-second flag, so that 2147483647 + 1 is a value of the model.       *)
(***************************************************************************)
EXTENDS Integers, Sequences, FiniteSets, TLC

\* ------------------------------------------------------------- values

None == [t |-> "none", v |-> <<>>]
Str(s) == [t |-> "str", v |-> s]
Bool(b) == [t |-> "bool", v |-> b]
List(items) == [t |-> "list", v |-> items]
PySet(items) == [t |-> "set", v |-> items]
Dict(d) == [t |-> "dict", v |-> d]
File(name, size) == [t |-> "file", v |-> [name |-> name, size |-> size]]

Abs(n) == IF n < 0 THEN -n ELSE n

Wide(n) == [neg |-> n < 0, hi |-> Abs(n) \div 65536, lo |-> Abs(n) % 65536, half |-> 0]
WideOf(neg, hi, lo, half) == [neg |-> neg, hi |-> hi, lo |-> lo, half |-> half]
IntV(n) == [t |-> "int", v |-> Wide(n)]
IntW(w) == [t |-> "int", v |-> w]
FloatW(w) == [t |-> "float", v |-> w]
FloatV(n) == FloatW(Wide(n))

WSucc(w) == IF w.lo = 65535 THEN [w EXCEPT !.hi = w.hi + 1, !.lo = 0]
            ELSE [w EXCEPT !.lo = w.lo + 1]
WHalf(w) == [w EXCEPT !.half = 1]
WNeg(w) == [w EXCEPT !.neg = TRUE]

WIsZero(w) == w.hi = 0 /\ w.lo = 0 /\ w.half = 0
WMagLess(a, b) ==
    \/ a.hi < b.hi
    \/ a.hi = b.hi /\ a.lo < b.lo
    \/ a.hi = b.hi /\ a.lo = b.lo /\ a.half < b.half
WIsNeg(w) == w.neg /\ ~WIsZero(w)
WLess(a, b) ==
    IF WIsNeg(a) THEN (IF WIsNeg(b) THEN WMagLess(b, a) ELSE TRUE)
    ELSE (IF WIsNeg(b) THEN FALSE ELSE WMagLess(a, b))
WEq(a, b) == ~WLess(a, b) /\ ~WLess(b, a)
\* the integer a magnitude below 2^31 stands for
WInt(w) == w.hi * 65536 + w.lo

IsNum(x) == x.t \in {"int", "float"}
IsStr(x) == x.t = "str"

\* Python's bool(x)
Truthy(x) ==
    CASE x.t = "none" -> FALSE
      [] x.t = "bool" -> x.v
      [] x.t \in {"int", "float"} -> ~WIsZero(x.v)
      [] x.t \in {"str", "list", "set", "dict", "tuple"} -> Len(x.v) > 0
      [] OTHER -> TRUE

\* ------------------------------------------------------------ strings

UpperChars == <<"A","B","C","D","E","F","G","H","I","J","K","L","M",
                "N","O","P","Q","R","S","T","U","V","W","X","Y","Z">>
LowerChars == <<"a","b","c","d","e","f","g","h","i","j","k","l","m",
                "n","o","p","q","r","s","t","u","v","w","x","y","z">>
DigitChars == <<"0","1","2","3","4","5","6","7","8","9">>
HexLetters == {"a","b","c","d","e","f"}

IsDigit(c) == \E i \in 1..10 : DigitChars[i] = c
DigitVal(c) == (CHOOSE i \in 1..10 : DigitChars[i] = c) - 1
IsSpace(c) == c \in {" ", "\t", "\n"}

LowerChar(c) ==
    IF \E i \in 1..26 : UpperChars[i] = c
    THEN LowerChars[CHOOSE i \in 1..26 : UpperChars[i] = c]
    ELSE c
\* str.lower()
Lower(s) == [i \in 1..Len(s) |-> LowerChar(s[i])]

RECURSIVE LStrip(_)
LStrip(s) == IF s # <<>> /\ IsSpace(Head(s)) THEN LStrip(Tail(s)) ELSE s
RECURSIVE RStrip(_)
RStrip(s) == IF s # <<>> /\ IsSpace(s[Len(s)]) THEN RStrip(SubSeq(s, 1, Len(s) - 1)) ELSE s
\* str.strip()
Strip(s) == RStrip(LStrip(s))

StartsWith(s, c) == s # <<>> /\ s[1] = c
EndsWith(s, c) == s # <<>> /\ s[Len(s)] = c
\* s[:n]
Truncate(s, n) == IF Len(s) > n THEN SubSeq(s, 1, n) ELSE s

RECURSIVE DigitsVal(_)
DigitsVal(s) == IF s = <<>> THEN 0 ELSE DigitsVal(SubSeq(s, 1, Len(s) - 1)) * 10 + DigitVal(s[Len(s)])
AllDigits(s) == s # <<>> /\ \A i \in 1..Len(s) : IsDigit(s[i])

RECURSIVE NatStr(_)
NatStr(n) == IF n < 10 THEN <<DigitChars[n + 1]>> ELSE NatStr(n \div 10) \o <<DigitChars[(n % 10) + 1]>>


\* ------------------------------------------------- Python conversions

\* the outcome of one stage: a value, or the error raised
Ok(v) == [ok |-> TRUE, val |-> v, err |-> "", params |-> None]
Err(code, p) == [ok |-> FALSE, val |-> None, err |-> code, params |-> p]

WStr(w) == (IF w.neg THEN <<"-">> ELSE <<>>) \o NatStr(WInt(w))
\* str(x) for the values the fields stringify
PyStr(x) ==
    CASE x.t = "str" -> x.v
      [] x.t = "int" -> WStr(x.v)
      [] x.t = "float" -> WStr(x.v) \o (IF x.v.half = 1 THEN <<".", "5">> ELSE <<".", "0">>)
      [] x.t = "bool" -> IF x.v THEN <<"T","r","u","e">> ELSE <<"F","a","l","s","e">>
      [] OTHER -> <<"<", x.t, ">">>

\* int(s) for a str: surrounding whitespace and one sign are allowed
PyIntOfStr(s) ==
    LET t == Strip(s)
        signed == t # <<>> /\ t[1] \in {"-", "+"}
        d == IF signed THEN Tail(t) ELSE t
    IN IF AllDigits(d)
       THEN Ok(IntW([Wide(DigitsVal(d)) EXCEPT !.neg = signed /\ t[1] = "-" /\ DigitsVal(d) # 0]))
       ELSE Err("ValueError", None)

\* float(x): numbers and bools convert, a str is parsed (a fraction of .0 or .5)
PyFloat(x) ==
    CASE x.t = "float" -> Ok(x)
      [] x.t = "int" -> Ok(FloatW(x.v))
      [] x.t = "bool" -> Ok(FloatV(IF x.v THEN 1 ELSE 0))
      [] x.t = "str" ->
            LET t == Strip(x.v)
                signed == t # <<>> /\ t[1] \in {"-", "+"}
                d == IF signed THEN Tail(t) ELSE t
                dot == IF \E i \in 1..Len(d) : d[i] = "."
                       THEN CHOOSE i \in 1..Len(d) : d[i] = "." /\ \A j \in 1..(i - 1) : d[j] # "."
                       ELSE Len(d) + 1
                ip == SubSeq(d, 1, dot - 1)
                fp == SubSeq(d, dot + 1, Len(d))
                neg == signed /\ t[1] = "-"
            IN IF AllDigits(ip) /\ fp \in {<<>>, <<"0">>, <<"5">>}
               THEN Ok(FloatW([Wide(DigitsVal(ip)) EXCEPT !.neg = neg,
                                                          !.half = IF fp = <<"5">> THEN 1 ELSE 0]))
               ELSE Err("ValueError", None)
      [] OTHER -> Err("TypeError", None)

RECURSIVE DropZeros(_)
DropZeros(s) == IF s # <<>> /\ s[Len(s)] = "0" THEN DropZeros(SubSeq(s, 1, Len(s) - 1)) ELSE s
\* IntegerField.re_decimal.sub('', s): drops a trailing "." 0* whitespace*
ReDecimalSub(s) ==
    LET z == DropZeros(RStrip(s))
    IN IF z # <<>> /\ z[Len(z)] = "." THEN SubSeq(z, 1, Len(z) - 1) ELSE s

\* ---------------------------------------------------------------- re
\* A pattern is its atoms and whether it ends in "$"; an atom is a set of
\* characters ("any" for ".") taken once or, starred, any number of times.

AnyChar == {"any"}
Atom(set) == [set |-> set, star |-> FALSE]
Star(set) == [set |-> set, star |-> TRUE]
Pattern(atoms, dollar) == [t |-> "pattern", v |-> [atoms |-> atoms, dollar |-> dollar]]

AtomTakes(a, c, ignorecase) ==
    \/ a.set = AnyChar
    \/ c \in a.set
    \/ ignorecase /\ \E d \in a.set : LowerChar(d) = LowerChar(c)

\* the positions after which atoms[i..] can stop, having started at s[j]
RECURSIVE MatchEnds(_, _, _, _, _)
MatchEnds(atoms, i, s, j, ic) ==
    IF i > Len(atoms) THEN {j}
    ELSE LET a == atoms[i]
             takes == j <= Len(s) /\ AtomTakes(a, s[j], ic)
         IN IF a.star
            THEN MatchEnds(atoms, i + 1, s, j, ic)
                 \cup (IF takes THEN MatchEnds(atoms, i, s, j + 1, ic) ELSE {})
            ELSE IF takes THEN MatchEnds(atoms, i + 1, s, j + 1, ic) ELSE {}

\* re.match(regex, s, flags): anchored at the start of s only; the result
\* is the matched prefix (a match object) or None
ReMatch(regex, s, ignorecase) ==
    LET ends == MatchEnds(regex.v.atoms, 1, s, 1, ignorecase)
        good == IF regex.v.dollar THEN ends \cap {Len(s) + 1} ELSE ends
    IN IF good = {} THEN None
       ELSE LET e == CHOOSE e \in good : \A g \in good : g <= e
            IN [t |-> "match", v |-> SubSeq(s, 1, e - 1)]


\* ---------------------------------------------------------- datetime
\* A datetime is its civil fields, microseconds and tz: "naive", "UTC" or
\* a fixed offset.

DateTime(y, mo, d, h, mi, sec, us, tz) ==
    [t |-> "datetime", v |-> [y |-> y, mo |-> mo, d |-> d, h |-> h, mi |-> mi, s |-> sec, us |-> us, tz |-> tz]]
Date(y, mo, d) == [t |-> "date", v |-> [y |-> y, mo |-> mo, d |-> d]]
Naive == "naive"
UTC == "UTC"
\* minutes east of UTC
TzOffset(tz) == IF tz = "+03:00" THEN 180 ELSE 0

DaysFromCivil(y0, m, d) ==
    LET y == IF m <= 2 THEN y0 - 1 ELSE y0
        era == y \div 400
        yoe == y - era * 400
        doy == (153 * (IF m > 2 THEN m - 3 ELSE m + 9) + 2) \div 5 + d - 1
        doe == yoe * 365 + yoe \div 4 - yoe \div 100 + doy
    IN era * 146097 + doe - 719468

CivilFromDays(z0) ==
    LET z == z0 + 719468
        era == z \div 146097
        doe == z - era * 146097
        yoe == (doe - doe \div 1460 + doe \div 36524 - doe \div 146096) \div 365
        doy == doe - (365 * yoe + yoe \div 4 - yoe \div 100)
        mp == (5 * doy + 2) \div 153
        d == doy - (153 * mp + 2) \div 5 + 1
        m == IF mp < 10 THEN mp + 3 ELSE mp - 9
        y == yoe + era * 400 + (IF m <= 2 THEN 1 ELSE 0)
    IN [y |-> y, mo |-> m, d |-> d]

IsLeap(y) == (y % 4 = 0 /\ y % 100 # 0) \/ y % 400 = 0
DaysInMonth(y, m) ==
    IF m = 2 THEN (IF IsLeap(y) THEN 29 ELSE 28)
    ELSE IF m \in {4, 6, 9, 11} THEN 30 ELSE 31

\* datetime.fromtimestamp(value) in a zone three hours east of UTC
utcfromtimestamp_local(w) ==
    LET n == WInt(w) + 10800
        c == CivilFromDays(n \div 86400)
        r == n % 86400
    IN IF WIsNeg(w) \/ w.hi > 32767 THEN Err("OverflowError", None)
       ELSE Ok(DateTime(c.y, c.mo, c.d, r \div 3600, (r % 3600) \div 60, r % 60,
                        IF w.half = 1 THEN 500000 ELSE 0, Naive))

\* datetime.utcfromtimestamp(value): a naive datetime, the UTC civil time
utcfromtimestamp(w) ==
    LET n == WInt(w)
        c == CivilFromDays(n \div 86400)
        r == n % 86400
    IN IF WIsNeg(w) \/ w.hi > 32767 THEN Err("OverflowError", None)
       ELSE Ok(DateTime(c.y, c.mo, c.d, r \div 3600, (r % 3600) \div 60, r % 60,
                        IF w.half = 1 THEN 500000 ELSE 0, Naive))

\* django.utils.timezone.make_aware(dt, utc)
make_aware(dt) ==
    IF dt.v.tz # Naive THEN Err("ValueError", None)
    ELSE Ok([dt EXCEPT !.v.tz = UTC])

\* datetime.date()
DateOf(dt) == Date(dt.v.y, dt.v.mo, dt.v.d)

\* compatibility.to_timestamp(dt): seconds since the epoch as a float
to_timestamp(dt) ==
    LET off == TzOffset(dt.v.tz)
        n == DaysFromCivil(dt.v.y, dt.v.mo, dt.v.d) * 86400
             + dt.v.h * 3600 + dt.v.mi * 60 + dt.v.s - off * 60
    IN FloatW([Wide(n) EXCEPT !.half = IF dt.v.us = 500000 THEN 1 ELSE 0])

\* datetime.strptime(s, mask) for the directives %Y %m %d %H %M %S and
\* literal characters; acc holds the fields parsed so far
StrptimeWidth(dr) == IF dr = "Y" THEN 4 ELSE 2
StrptimeInRange(dr, n) ==
    CASE dr = "Y" -> n >= 1
      [] dr = "m" -> n \in 1..12
      [] dr = "d" -> n \in 1..31
      [] dr = "H" -> n \in 0..23
      [] dr \in {"M", "S"} -> n \in 0..59
      [] OTHER -> FALSE

RECURSIVE StrptimeFrom(_, _, _, _, _)
StrptimeFrom(s, i, mask, j, acc) ==
    IF j > Len(mask)
    THEN IF i = Len(s) + 1 /\ acc.d <= DaysInMonth(acc.Y, acc.m)
         THEN Ok(DateTime(acc.Y, acc.m, acc.d, acc.H, acc.M, acc.S, 0, Naive))
         ELSE Err("ValueError", None)
    ELSE IF mask[j] = "%" /\ j < Len(mask)
    THEN LET dr == mask[j + 1]
             w == StrptimeWidth(dr)
             full == i + w - 1 <= Len(s) /\ AllDigits(SubSeq(s, i, i + w - 1))
                     /\ StrptimeInRange(dr, DigitsVal(SubSeq(s, i, i + w - 1)))
             one == dr # "Y" /\ i <= Len(s) /\ IsDigit(s[i]) /\ StrptimeInRange(dr, DigitVal(s[i]))
         IN IF dr \notin {"Y", "m", "d", "H", "M", "S"} THEN Err("ValueError", None)
            ELSE IF full
            THEN StrptimeFrom(s, i + w, mask, j + 2, [acc EXCEPT ![dr] = DigitsVal(SubSeq(s, i, i + w - 1))])
            ELSE IF one
            THEN StrptimeFrom(s, i + 1, mask, j + 2, [acc EXCEPT ![dr] = DigitVal(s[i])])
            ELSE Err("ValueError", None)
    ELSE IF i <= Len(s) /\ s[i] = mask[j]
    THEN StrptimeFrom(s, i + 1, mask, j + 1, acc)
    ELSE Err("ValueError", None)

strptime(x, mask) ==
    IF x.t # "str" THEN Err("TypeError", None)
    ELSE StrptimeFrom(x.v, 1, mask, 1, [Y |-> 1900, m |-> 1, d |-> 1, H |-> 0, M |-> 0, S |-> 0])


\* -------------------------------------------------------------- json
\* json.loads on null, true, false, integers, "strings" without escapes,
\* arrays and objects.  A parse is [ok, val, pos]: the value and the
\* position after it.

RECURSIVE SkipWs(_, _)
SkipWs(s, i) == IF i <= Len(s) /\ IsSpace(s[i]) THEN SkipWs(s, i + 1) ELSE i

HasAt(s, i, w) == i + Len(w) - 1 <= Len(s) /\ SubSeq(s, i, i + Len(w) - 1) = w

RECURSIVE DigitsEnd(_, _)
DigitsEnd(s, i) == IF i <= Len(s) /\ IsDigit(s[i]) THEN DigitsEnd(s, i + 1) ELSE i
RECURSIVE QuoteAt(_, _)
QuoteAt(s, i) == IF i > Len(s) THEN 0 ELSE IF s[i] = "\"" THEN i ELSE QuoteAt(s, i + 1)

Parsed(v, pos) == [ok |-> TRUE, val |-> v, pos |-> pos]
NotParsed == [ok |-> FALSE, val |-> None, pos |-> 0]

RECURSIVE JsonValue(_, _)
RECURSIVE JsonItems(_, _, _)
RECURSIVE JsonMembers(_, _, _)

JsonValue(s, i0) ==
    LET i == SkipWs(s, i0)
    IN CASE i > Len(s) -> NotParsed
         [] HasAt(s, i, <<"n","u","l","l">>) -> Parsed(None, i + 4)
         [] HasAt(s, i, <<"t","r","u","e">>) -> Parsed(Bool(TRUE), i + 4)
         [] HasAt(s, i, <<"f","a","l","s","e">>) -> Parsed(Bool(FALSE), i + 5)
         [] i <= Len(s) /\ IsDigit(s[i]) ->
                LET e == DigitsEnd(s, i)
                IN IF s[i] = "0" /\ e > i + 1 THEN NotParsed
                   ELSE Parsed(IntV(DigitsVal(SubSeq(s, i, e - 1))), e)
         [] i < Len(s) /\ s[i] = "-" /\ IsDigit(s[i + 1]) ->
                LET e == DigitsEnd(s, i + 1)
                IN Parsed(IntV(0 - DigitsVal(SubSeq(s, i + 1, e - 1))), e)
         [] i <= Len(s) /\ s[i] = "\"" ->
                LET q == QuoteAt(s, i + 1)
                IN IF q = 0 THEN NotParsed ELSE Parsed(Str(SubSeq(s, i + 1, q - 1)), q + 1)
         [] i <= Len(s) /\ s[i] = "[" ->
                LET j == SkipWs(s, i + 1)
                IN IF j <= Len(s) /\ s[j] = "]" THEN Parsed(List(<<>>), j + 1)
                   ELSE JsonItems(s, j, <<>>)
         [] i <= Len(s) /\ s[i] = "{" ->
                LET j == SkipWs(s, i + 1)
                IN IF j <= Len(s) /\ s[j] = "}" THEN Parsed(Dict(<<>>), j + 1)
                   ELSE JsonMembers(s, j, <<>>)
         [] OTHER -> NotParsed

JsonItems(s, i, acc) ==
    LET item == JsonValue(s, i)
        j == SkipWs(s, item.pos)
    IN IF ~item.ok \/ j > Len(s) THEN NotParsed
       ELSE IF s[j] = "]" THEN Parsed(List(Append(acc, item.val)), j + 1)
       ELSE IF s[j] = "," THEN JsonItems(s, j + 1, Append(acc, item.val))
       ELSE NotParsed

JsonMembers(s, i0, acc) ==
    LET i == SkipWs(s, i0)
        key == IF i <= Len(s) /\ s[i] = "\"" THEN JsonValue(s, i) ELSE NotParsed
        c == IF key.ok THEN SkipWs(s, key.pos) ELSE 0
        val == IF key.ok /\ c <= Len(s) /\ s[c] = ":" THEN JsonValue(s, c + 1) ELSE NotParsed
        j == IF val.ok THEN SkipWs(s, val.pos) ELSE 0
    IN IF ~val.ok \/ j > Len(s) THEN NotParsed
       ELSE IF s[j] = "}" THEN Parsed(Dict(Append(acc, <<key.val, val.val>>)), j + 1)
       ELSE IF s[j] = "," THEN JsonMembers(s, j + 1, Append(acc, <<key.val, val.val>>))
       ELSE NotParsed

\* json.loads(s): the whole of s is one value
JsonLoads(s) ==
    LET p == JsonValue(s, 1)
    IN IF p.ok /\ SkipWs(s, p.pos) = Len(s) + 1 THEN Ok(p.val) ELSE Err("JSONDecodeError", None)

\* -------------------------------------------------------- jsonschema
\* A schema holds the keywords the fields use; -1 and None stand for a
\* keyword that is absent.

Schema(type, minItems, maxItems, items, properties, minimum) ==
    [t |-> "schema", v |-> [type |-> type, minItems |-> minItems, maxItems |-> maxItems,
                             items |-> items, properties |-> properties, minimum |-> minimum]]

JsonTypeIs(x, type) ==
    CASE type = "array" -> x.t = "list"
      [] type = "object" -> x.t = "dict"
      [] type = "integer" -> x.t = "int"
      [] type = "string" -> x.t = "str"
      [] OTHER -> TRUE

\* jsonschema.validate(x, schema) raises nothing
RECURSIVE SchemaAccepts(_, _)
SchemaAccepts(x, schema) ==
    LET k == schema.v
    IN /\ JsonTypeIs(x, k.type)
       /\ (x.t = "list" /\ k.minItems # -1) => Len(x.v) >= k.minItems
       /\ (x.t = "list" /\ k.maxItems # -1) => Len(x.v) <= k.maxItems
       /\ (x.t = "list" /\ k.items # None) => \A n \in 1..Len(x.v) : SchemaAccepts(x.v[n], k.items)
       /\ x.t = "dict" =>
             \A n \in 1..Len(x.v) : \A q \in 1..Len(k.properties) :
                 x.v[n][1] = Str(k.properties[q][1]) => SchemaAccepts(x.v[n][2], k.properties[q][2])
       /\ (IsNum(x) /\ k.minimum # None) => ~WLess(x.v, k.minimum.v)


\* ------------------------------------------------------ construction
\* A field is built from its keyword arguments; Unset is an argument that
\* was not passed.

Unset == [t |-> "unset", v |-> <<>>]
Tuple(items) == [t |-> "tuple", v |-> items]
Get(arg, default) == IF arg = Unset THEN default ELSE arg

CharFieldTypes == {"RestCharField", "RegexField", "DateTimeField", "DateField", "MonthField",
                   "TimezoneField", "RestBooleanField", "ColorField", "TruncatedCharField",
                   "JsonField", "ArrayField", "IdArrayField", "IdSetField", "UrlField",
                   "HexField", "UUIDField"}
ChoiceFieldTypes == {"RestChoiceField", "DateUnitField"}
\* the classes with EmptyStringFixMixing in their bases
EmptyStringFixMixing == CharFieldTypes \cup ChoiceFieldTypes
IntegerFieldTypes == {"RestIntegerField", "PositiveIntegerField", "IdField"}
FloatFieldTypes == {"RestFloatField", "TimestampField"}
\* the classes with InitialFixMixin in their bases
InitialFixMixin == IntegerFieldTypes \cup FloatFieldTypes
RegexFieldTypes == {"RegexField", "UrlField", "UUIDField"}
DateTimeFieldTypes == {"DateTimeField", "DateField", "MonthField"}
JsonFieldTypes == {"JsonField", "ArrayField", "IdArrayField", "IdSetField"}
ArrayFieldTypes == {"ArrayField", "IdArrayField", "IdSetField"}
FieldTypes == EmptyStringFixMixing \cup InitialFixMixin \cup {"LowerCaseEmailField", "FileField"}

\* RestChoiceField.__init__: a bare choice ch becomes the pair (ch, ch)
RestChoiceField_init(choices) ==
    [n \in 1..Len(choices) |-> IF choices[n].t = "tuple" THEN choices[n]
                               ELSE Tuple(<<choices[n], choices[n]>>)]

UNIT_CHOICES == <<Str(<<"h","o","u","r">>), Str(<<"d","a","y">>), Str(<<"w","e","e","k">>)>>
\* DateUnitField.__init__
DateUnitField_init == RestChoiceField_init(UNIT_CHOICES)

\* PositiveIntegerField.__init__: min_value defaults to 0 with with_zero, else to 1
PositiveIntegerField_init(kw) ==
    Get(kw.min_value, IF Get(kw.with_zero, Bool(FALSE)).v THEN IntV(0) ELSE IntV(1))

\* IdField.__init__: max_value defaults to settings.ID_FIELD_MAX_VALUE when it is set
IdField_init(kw) ==
    IF kw.ID_FIELD_MAX_VALUE # None THEN Get(kw.max_value, kw.ID_FIELD_MAX_VALUE)
    ELSE Get(kw.max_value, None)

\* TimestampField.__init__ with the upper bound exclusive
TimestampField_init_exclusive(kw) ==
    [in_future |-> Get(kw.in_future, Bool(TRUE)).v,
     initial |-> IF kw.initial = Unset THEN None
                 ELSE IF kw.initial.t = "datetime" THEN to_timestamp(kw.initial)
                 ELSE kw.initial,
     min_value |-> IntV(0),
     max_value |-> IntV(2147483646)]

TimestampField_max_value == 2147483647
\* TimestampField.__init__: in_future defaults to True, a datetime initial
\* becomes its timestamp, and the bounds are fixed
TimestampField_init(kw) ==
    [in_future |-> Get(kw.in_future, Bool(TRUE)).v,
     initial |-> IF kw.initial = Unset THEN None
                 ELSE IF kw.initial.t = "datetime" THEN to_timestamp(kw.initial)
                 ELSE kw.initial,
     min_value |-> IntV(0),
     max_value |-> IntV(TimestampField_max_value)]

\* DateTimeField.__init__, DateField.__init__, MonthField.__init__: the default mask
DateTimeField_init(kw) ==
    IF kw.mask # Unset THEN kw.mask.v
    ELSE CASE kw.type = "DateField" -> <<"%","Y","-","%","m","-","%","d">>
           [] kw.type = "MonthField" -> <<"%","Y","-","%","m">>
           [] OTHER -> <<"%","Y","-","%","m","-","%","d","T","%","H",":","%","M",":","%","S">>

TruncatedCharField_default == 255
\* TruncatedCharField.__init__
TruncatedCharField_init(kw) == Get(kw.truncate_length, IntV(TruncatedCharField_default))

\* ArrayField.__init__: the schema of the array
ArrayField_init(kw) ==
    LET min_items == Get(kw.min_items, IntV(0))
        max_items == Get(kw.max_items, None)
        item_schema == Get(kw.item_schema, None)
    IN Schema("array", WInt(min_items.v),
              IF Truthy(max_items) THEN WInt(max_items.v) ELSE -1,
              IF Truthy(item_schema) THEN item_schema ELSE None,
              <<>>, None)

HexAtom == Atom({"0","1","2","3","4","5","6","7","8","9","a","b","c","d","e","f"})
Rep(a, n) == [i \in 1..n |-> a]
\* UUIDField.__init__: ^[0-9a-f]{8}-[0-9a-f]{4}-[0-9a-f]{4}-[0-9a-f]{4}-[0-9a-f]{12}$
UUIDField_init ==
    Pattern(Rep(HexAtom, 8) \o <<Atom({"-"})>> \o Rep(HexAtom, 4) \o <<Atom({"-"})>>
            \o Rep(HexAtom, 4) \o <<Atom({"-"})>> \o Rep(HexAtom, 4) \o <<Atom({"-"})>>
            \o Rep(HexAtom, 12), TRUE)

\* the keyword arguments of a field of the given class, none passed
Kwargs(type) ==
    [type |-> type, required |-> TRUE, initial |-> Unset,
     min_length |-> Unset, max_length |-> Unset, regex |-> Unset, flags |-> Unset,
     choices |-> Unset, min_value |-> Unset, max_value |-> Unset, with_zero |-> Unset,
     in_future |-> Unset, mask |-> Unset, truncate_length |-> Unset,
     json_schema |-> Unset, item_schema |-> Unset, min_items |-> Unset, max_items |-> Unset,
     with_underscore_domain |-> Unset, valid_extensions |-> Unset, max_size |-> Unset,
     ID_FIELD_MAX_VALUE |-> None]

\* the field object the class's __init__ chain leaves
Construct(kw) ==
    LET ty == kw.type
        ts == TimestampField_init(kw)
    IN [type |-> ty,
        required |-> kw.required,
        initial |-> IF ty = "TimestampField" THEN ts.initial ELSE Get(kw.initial, None),
        min_length |-> Get(kw.min_length, None),
        max_length |-> Get(kw.max_length, None),
        regex |-> IF ty = "UUIDField" THEN UUIDField_init ELSE Get(kw.regex, None),
        flags |-> Get(kw.flags, Bool(FALSE)).v,
        choices |-> CASE ty = "DateUnitField" -> DateUnitField_init
                      [] ty = "RestChoiceField" /\ kw.choices # Unset -> RestChoiceField_init(kw.choices.v)
                      [] OTHER -> <<>>,
        min_value |-> CASE ty = "TimestampField" -> ts.min_value
                        [] ty \in {"PositiveIntegerField", "IdField"} -> PositiveIntegerField_init(kw)
                        [] OTHER -> Get(kw.min_value, None),
        max_value |-> CASE ty = "TimestampField" -> ts.max_value
                        [] ty = "IdField" -> IdField_init(kw)
                        [] OTHER -> Get(kw.max_value, None),
        in_future |-> ts.in_future,
        mask |-> DateTimeField_init(kw),
        truncate_length |-> TruncatedCharField_init(kw),
        json_schema |-> IF ty \in ArrayFieldTypes THEN ArrayField_init(kw) ELSE Get(kw.json_schema, None),
        with_underscore_domain |-> Get(kw.with_underscore_domain, Bool(TRUE)).v,
        valid_extensions |-> Get(kw.valid_extensions, None),
        size |-> Get(kw.max_size, None),
        ID_FIELD_MAX_VALUE |-> kw.ID_FIELD_MAX_VALUE,
        _match |-> None]


\* ------------------------------------------- django.forms base classes

In(x, seq) == \E n \in 1..Len(seq) : seq[n] = x

\* django's Field.empty_values, in every class
empty_values_django(f) == <<None, Str(<<>>), List(<<>>), Tuple(<<>>), Dict(<<>>)>>

\* Field.empty_values, and EmptyStringFixMixing.empty_values = [None]
empty_values(f) ==
    IF f.type \in EmptyStringFixMixing THEN <<None>>
    ELSE <<None, Str(<<>>), List(<<>>), Tuple(<<>>), Dict(<<>>)>>

\* Field.validate without the required check
Field_validate_lax(f, value) == Ok(value)

\* Field.validate: the required check
Field_validate(f, value) ==
    IF In(value, empty_values(f)) /\ f.required THEN Err("required", None) ELSE Ok(value)

\* CharField.to_python: str() and strip() of a value that is not empty
CharField_to_python(f, value) ==
    LET v == IF ~In(value, empty_values(f)) THEN Str(Strip(PyStr(value))) ELSE value
    IN IF In(v, empty_values(f)) THEN Ok(Str(<<>>)) ELSE Ok(v)

\* ChoiceField.to_python
ChoiceField_to_python(f, value) ==
    IF In(value, empty_values(f)) THEN Ok(Str(<<>>)) ELSE Ok(Str(PyStr(value)))

\* ChoiceField.valid_value without the str() comparison
valid_value_strict(f, value) ==
    \E n \in 1..Len(f.choices) : value = f.choices[n].v[1]

\* ChoiceField.valid_value: value equals a choice or has its str()
valid_value(f, value) ==
    \E n \in 1..Len(f.choices) :
        LET k == f.choices[n].v[1]
        IN value = k \/ PyStr(value) = PyStr(k)

\* ChoiceField.validate
ChoiceField_validate(f, value) ==
    LET r == Field_validate(f, value)
    IN IF ~r.ok THEN r
       ELSE IF Truthy(value) /\ ~valid_value(f, value) THEN Err("invalid_choice", value)
       ELSE Ok(value)

\* IntegerField.to_python
IntegerField_to_python(f, value) ==
    IF In(value, empty_values(f)) THEN Ok(None)
    ELSE LET r == PyIntOfStr(ReDecimalSub(PyStr(value)))
         IN IF r.ok THEN r ELSE Err("invalid", None)

\* FloatField.to_python
FloatField_to_python(f, value) ==
    IF In(value, empty_values(f)) THEN Ok(None)
    ELSE LET r == PyFloat(value)
         IN IF r.ok THEN r ELSE Err("invalid", None)

\* FloatField.validate (every float of the model is finite)
FloatField_validate(f, value) == Field_validate(f, value)

\* FileField.to_python: the handle needs a name and a size that is not 0
FileField_to_python(f, data) ==
    IF In(data, empty_values(f)) THEN Ok(None)
    ELSE IF data.t # "file" THEN Err("invalid", None)
    ELSE IF data.v.name = <<>> THEN Err("invalid", None)
    ELSE IF data.v.size = 0 THEN Err("empty", None)
    ELSE Ok(data)

\* len(value), for the length validators
HasLen(x) == x.t \in {"str", "list", "set", "dict", "tuple"}

\* validate_email, by the strings the model holds
ValidEmail(s) == s = <<"t","e","s","t","@","m","a","i","l",".","r","u","1">>

\* Field.run_validators: skipped for an empty value; the first failure
\* of the class's validators
run_validators(f, value) ==
    IF In(value, empty_values(f)) THEN Ok(value)
    ELSE IF f.type \in InitialFixMixin
    THEN IF f.max_value # None /\ WLess(f.max_value.v, value.v) THEN Err("max_value", None)
         ELSE IF f.min_value # None /\ WLess(value.v, f.min_value.v) THEN Err("min_value", None)
         ELSE Ok(value)
    ELSE IF f.type \in CharFieldTypes \cup {"LowerCaseEmailField"}
    THEN IF (f.min_length # None \/ f.max_length # None) /\ ~HasLen(value) THEN Err("TypeError", None)
         ELSE IF f.min_length # None /\ Len(value.v) < WInt(f.min_length.v) THEN Err("min_length", None)
         ELSE IF f.max_length # None /\ Len(value.v) > WInt(f.max_length.v) THEN Err("max_length", None)
         ELSE IF f.type = "LowerCaseEmailField" /\ ~(value.t = "str" /\ ValidEmail(value.v)) THEN Err("invalid", None)
         ELSE Ok(value)
    ELSE Ok(value)


\* ---------------------------------------------------- fields.py: to_python

\* EmptyStringFixMixing.to_python
EmptyStringFixMixing_to_python(f, value) ==
    IF value = None THEN Ok(None)
    ELSE IF f.type \in ChoiceFieldTypes THEN ChoiceField_to_python(f, value)
    ELSE CharField_to_python(f, value)

\* RestBooleanField.to_python without lower()
RestBooleanField_to_python_cased(f, value) ==
    IF value = None THEN Ok(None)
    ELSE IF IsStr(value) /\ value.v \in {<<"f","a","l","s","e">>, <<"0">>, <<>>}
    THEN Ok(Bool(FALSE))
    ELSE Ok(Bool(Truthy(value)))

\* RestBooleanField.to_python
RestBooleanField_to_python(f, value) ==
    IF value = None THEN Ok(None)
    ELSE IF IsStr(value) /\ Lower(value.v) \in {<<"f","a","l","s","e">>, <<"0">>, <<>>}
    THEN Ok(Bool(FALSE))
    ELSE Ok(Bool(Truthy(value)))

\* LowerCaseEmailField.to_python
LowerCaseEmailField_to_python(f, value) ==
    IF IsStr(value) THEN Ok(Str(Lower(value.v))) ELSE Ok(value)

\* TruncatedCharField.to_python
TruncatedCharField_to_python(f, value) ==
    IF Truthy(value) /\ f.truncate_length # None
    THEN IF value.t \notin {"str", "list"} THEN Err("TypeError", None)
         ELSE EmptyStringFixMixing_to_python(f, [value EXCEPT !.v = Truncate(value.v, WInt(f.truncate_length.v))])
    ELSE EmptyStringFixMixing_to_python(f, value)

\* JsonField.to_python
JsonField_to_python(f, value) ==
    IF value = None \/ value.t \in {"list", "dict"} THEN Ok(value)
    ELSE IF IsStr(value)
    THEN LET r == JsonLoads(value.v)
         IN IF r.ok THEN r ELSE Err("json_not_parsed", None)
    ELSE Err("invalid_json", None)

\* str.split(',', 1): split at the first comma only
Split_once(s) ==
    IF \E n \in 1..Len(s) : s[n] = ","
    THEN LET n == CHOOSE n \in 1..Len(s) : s[n] = "," /\ \A m \in 1..(n - 1) : s[m] # ","
         IN <<SubSeq(s, 1, n - 1), SubSeq(s, n + 1, Len(s))>>
    ELSE <<s>>

\* str.split(',')
RECURSIVE Split(_)
Split(s) ==
    IF \E n \in 1..Len(s) : s[n] = ","
    THEN LET n == CHOOSE n \in 1..Len(s) : s[n] = "," /\ \A m \in 1..(n - 1) : s[m] # ","
         IN <<SubSeq(s, 1, n - 1)>> \o Split(SubSeq(s, n + 1, Len(s)))
    ELSE <<s>>

\* ArrayField.to_python
ArrayField_to_python(f, value) ==
    IF value = None \/ value.t = "list" THEN JsonField_to_python(f, value)
    ELSE IF value.t = "dict" THEN Err("not_array", None)
    ELSE IF IsStr(value)
    THEN IF StartsWith(value.v, "[") \/ EndsWith(value.v, "]") THEN JsonField_to_python(f, value)
         ELSE IF StartsWith(value.v, "{") /\ EndsWith(value.v, "}") THEN Err("not_array", None)
         ELSE LET data == Split(value.v)
                  item_schema == IF Truthy(f.json_schema) THEN f.json_schema.v.items ELSE None
              IN IF Truthy(item_schema) /\ item_schema.v.type = "integer"
                 THEN IF \A n \in 1..Len(data) : PyIntOfStr(data[n]).ok
                      THEN Ok(List([n \in 1..Len(data) |-> PyIntOfStr(data[n]).val]))
                      ELSE Err("array_of_integers", None)
                 ELSE Ok(List([n \in 1..Len(data) |-> Str(data[n])]))
    ELSE Err("invalid_json", None)

\* UrlField.to_python
UrlField_to_python(f, value) ==
    EmptyStringFixMixing_to_python(f, IF IsStr(value) THEN Str(Strip(value.v)) ELSE value)

\* the to_python the class of f resolves to
to_python(f, value) ==
    CASE f.type = "RestBooleanField" -> RestBooleanField_to_python(f, value)
      [] f.type = "TruncatedCharField" -> TruncatedCharField_to_python(f, value)
      [] f.type = "JsonField" -> JsonField_to_python(f, value)
      [] f.type \in ArrayFieldTypes -> ArrayField_to_python(f, value)
      [] f.type = "UrlField" -> UrlField_to_python(f, value)
      [] f.type = "LowerCaseEmailField" -> LowerCaseEmailField_to_python(f, value)
      [] f.type = "FileField" -> FileField_to_python(f, value)
      [] f.type \in IntegerFieldTypes -> IntegerField_to_python(f, value)
      [] f.type \in FloatFieldTypes -> FloatField_to_python(f, value)
      [] OTHER -> EmptyStringFixMixing_to_python(f, value)

\* ----------------------------------------------------- fields.py: validate

\* EmptyStringFixMixing.validate
EmptyStringFixMixing_validate(f, value) ==
    IF value = None /\ f.required THEN Err("required", None)
    ELSE IF f.type \in ChoiceFieldTypes THEN ChoiceField_validate(f, value)
    ELSE Field_validate(f, value)

\* RegexField.validate: what it raises
RegexField_validate(f, value) ==
    LET r == EmptyStringFixMixing_validate(f, value)
    IN IF ~r.ok THEN r
       ELSE IF value # None /\ Truthy(f.regex) /\ ReMatch(f.regex, PyStr(value), f.flags) = None
       THEN Err("regex", None)
       ELSE Ok(value)

\* RegexField.validate: what it leaves in self._match
RegexField_match(f, value) ==
    IF EmptyStringFixMixing_validate(f, value).ok /\ value # None /\ Truthy(f.regex)
    THEN ReMatch(f.regex, PyStr(value), f.flags)
    ELSE f._match

\* RestChoiceField.validate
RestChoiceField_validate(f, value) ==
    IF value # None /\ Len(f.choices) > 0 /\ ~valid_value(f, value)
    THEN Err("invalid_choice", value)
    ELSE EmptyStringFixMixing_validate(f, value)

\* TimestampField.validate; now is to_timestamp(now())
TimestampField_validate(f, value, now) ==
    LET r == FloatField_validate(f, value)
    IN IF ~r.ok THEN r
       ELSE IF value # None /\ ~f.in_future /\ WLess(now, value.v) THEN Err("future", None)
       ELSE Ok(value)

\* pytz.all_timezones, by the names the model holds
all_timezones == {<<"U","T","C">>, <<"E","u","r","o","p","e","/","M","o","s","c","o","w">>}

\* TimezoneField.validate
TimezoneField_validate(f, value) ==
    LET r == EmptyStringFixMixing_validate(f, value)
    IN IF ~r.ok THEN r
       ELSE IF Truthy(value) /\ PyStr(value) \notin all_timezones THEN Err("invalid_timezone", None)
       ELSE Ok(value)

\* ColorField.validate: ^[0-9a-f]{6}$
ColorField_validate(f, value) ==
    LET r == EmptyStringFixMixing_validate(f, value)
    IN IF ~r.ok THEN r
       ELSE IF Truthy(value) /\ ReMatch(Pattern(Rep(HexAtom, 6), TRUE), PyStr(value), FALSE) = None
       THEN Err("invalid_color", None)
       ELSE Ok(value)

AlnumLower == {LowerChars[n] : n \in 1..26} \cup {DigitChars[n] : n \in 1..10}
\* HexField.validate: [a-z0-9]*
HexField_validate(f, value) ==
    LET r == EmptyStringFixMixing_validate(f, value)
    IN IF ~r.ok THEN r
       ELSE IF IsStr(value) /\ ReMatch(Pattern(<<Star(AlnumLower)>>, FALSE), value.v, FALSE) = None
       THEN Err("invalid_hex", None)
       ELSE Ok(value)

\* JsonField.validate
JsonField_validate(f, value) ==
    LET r == EmptyStringFixMixing_validate(f, value)
    IN IF ~r.ok THEN r
       ELSE IF Truthy(f.json_schema) /\ value # None /\ ~SchemaAccepts(value, f.json_schema)
       THEN Err("schema", None)
       ELSE Ok(value)

s_url == <<"h","t","t","p",":","/","/","t","e","s","t",".","r","u">>
s_url_underscore == <<"h","t","t","p",":","/","/","t","e","_","s","t",".","r","u">>
\* django's URLValidator(schemes=['http', 'https']), by the strings the model holds
URLValidator(s) == s = s_url
\* validators.URLValidatorWithUnderscoreDomain: also an underscore in the domain
URLValidatorWithUnderscoreDomain(s) == s \in {s_url, s_url_underscore}

\* UrlField.validate
UrlField_validate(f, value) ==
    LET r == RegexField_validate(f, value)
    IN IF ~r.ok THEN r
       ELSE IF IsStr(value)
               /\ ~(IF f.with_underscore_domain THEN URLValidatorWithUnderscoreDomain(value.v)
                    ELSE URLValidator(value.v))
       THEN Err("invalid_url", None)
       ELSE Ok(value)

\* os.path.splitext(name)[1][1:]
ExtOf(name) ==
    LET dots == {n \in 1..Len(name) : name[n] = "." /\ \E m \in 1..(n - 1) : name[m] # "."}
    IN IF dots = {} THEN <<>>
       ELSE SubSeq(name, (CHOOSE n \in dots : \A m \in dots : m <= n) + 1, Len(name))

\* exceptions.FileTypeError(ext, valid_extensions), exceptions.FileSizeError(size, actual)
FileTypeError(ext, valid_extensions) == Err("file_type", List(<<Str(ext), valid_extensions>>))
FileSizeError(size, actual) == Err("file_size", List(<<size, IntV(actual)>>))

\* FileField.validate
FileField_validate(f, value) ==
    LET r == Field_validate(f, value)
        ext == Lower(ExtOf(value.v.name))
    IN IF ~r.ok THEN r
       ELSE IF f.valid_extensions # None /\ Truthy(value) /\ ~In(Str(ext), f.valid_extensions.v)
       THEN FileTypeError(ext, f.valid_extensions)
       ELSE IF f.size # None /\ Truthy(value) /\ value.v.size > WInt(f.size.v)
       THEN FileSizeError(f.size, value.v.size)
       ELSE Ok(value)

\* the validate the class of f resolves to
validate(f, value, now) ==
    CASE f.type \in {"RegexField", "UUIDField"} -> RegexField_validate(f, value)
      [] f.type = "UrlField" -> UrlField_validate(f, value)
      [] f.type \in ChoiceFieldTypes -> RestChoiceField_validate(f, value)
      [] f.type = "TimestampField" -> TimestampField_validate(f, value, now)
      [] f.type = "TimezoneField" -> TimezoneField_validate(f, value)
      [] f.type = "ColorField" -> ColorField_validate(f, value)
      [] f.type = "HexField" -> HexField_validate(f, value)
      [] f.type \in JsonFieldTypes -> JsonField_validate(f, value)
      [] f.type = "FileField" -> FileField_validate(f, value)
      [] f.type = "RestFloatField" -> FloatField_validate(f, value)
      [] f.type \in IntegerFieldTypes \cup {"LowerCaseEmailField"} -> Field_validate(f, value)
      [] OTHER -> EmptyStringFixMixing_validate(f, value)


\* -------------------------------------------------------- fields.py: clean
\* One clean invocation is a record: where it stands (pc), the argument
\* (raw), the value in hand, whether the argument was classified as empty,
\* the error raised, if any, and the value returned, if any.

NoReturn == [t |-> "noreturn", v |-> <<>>]
Start(raw) == [pc |-> "classify", raw |-> raw, value |-> raw, empty |-> FALSE,
               err |-> "", params |-> None, ret |-> NoReturn]
\* raise that hands back the value in hand with the error
Raise_partial(st, r) ==
    [st EXCEPT !.pc = "error", !.err = r.err, !.params = r.params, !.ret = st.value]

\* raise: the invocation ends with the error and returns nothing
Raise(st, r) == [st EXCEPT !.pc = "error", !.err = r.err, !.params = r.params]
\* return: the invocation ends with the value in hand
Return(st) == IF st.pc = "done" THEN [st EXCEPT !.ret = st.value] ELSE st

\* what the class's clean takes for "no value": `value is None`
\* (EmptyStringFixMixing.clean, LowerCaseEmailField.clean), `not data`
\* (FileField.clean), `value in self.empty_values` (IntegerField.to_python)
IsEmpty(f, value) ==
    CASE f.type \in EmptyStringFixMixing \cup {"LowerCaseEmailField"} -> value = None
      [] f.type = "FileField" -> ~Truthy(value)
      [] OTHER -> In(value, empty_values(f))

\* IdArrayField.clean: a set argument is cleaned as the list of its elements
IdArrayField_clean_arg(f, value) ==
    IF f.type \in {"IdArrayField", "IdSetField"} /\ value.t = "set" THEN List(value.v) ELSE value

\* the classes whose clean works on what super().clean returned
PostProcessing == {"TimestampField", "IdArrayField", "IdSetField"} \cup DateTimeFieldTypes

Finish(f) == IF f.type \in PostProcessing THEN "post" ELSE "done"

\* EmptyStringFixMixing.clean that returns initial for any None result
EmptyStringFixMixing_clean_none(f, st) ==
    CASE st.pc = "classify" -> "coerce"
      [] st.pc = "coerce" -> "validate"
      [] st.pc = "validate" -> IF st.empty THEN "substitute" ELSE "run_validators"
      [] st.pc = "run_validators" /\ st.value = None -> "substitute"
      [] OTHER -> Finish(f)

\* EmptyStringFixMixing.clean that runs the validators on the initial value
EmptyStringFixMixing_clean_validated(f, st) ==
    CASE st.pc = "classify" -> "coerce"
      [] st.pc = "coerce" -> "validate"
      [] st.pc = "validate" -> IF st.empty THEN "substitute" ELSE "run_validators"
      [] st.pc = "substitute" -> "run_validators"
      [] OTHER -> Finish(f)

\* EmptyStringFixMixing.clean: None is coerced and validated, and the
\* initial value returned; any other value goes through Field.clean
EmptyStringFixMixing_clean(f, st) ==
    CASE st.pc = "classify" -> "coerce"
      [] st.pc = "coerce" -> "validate"
      [] st.pc = "validate" -> IF st.empty THEN "substitute" ELSE "run_validators"
      [] OTHER -> Finish(f)

\* InitialFixMixin.clean that substitutes initial before run_validators
InitialFixMixin_clean_early(f, st) ==
    CASE st.pc = "classify" -> "coerce"
      [] st.pc = "coerce" -> "validate"
      [] st.pc = "validate" -> "substitute"
      [] st.pc = "substitute" -> "run_validators"
      [] OTHER -> Finish(f)

\* InitialFixMixin.clean: Field.clean, then initial for a None result
InitialFixMixin_clean(f, st) ==
    CASE st.pc = "classify" -> "coerce"
      [] st.pc = "coerce" -> "validate"
      [] st.pc = "validate" -> "run_validators"
      [] st.pc = "run_validators" -> "substitute"
      [] OTHER -> Finish(f)

\* LowerCaseEmailField.clean: Field.clean for a value; for None the
\* required check and the initial value
LowerCaseEmailField_clean(f, st) ==
    CASE st.pc = "classify" -> IF st.empty THEN "validate" ELSE "coerce"
      [] st.pc = "coerce" -> "validate"
      [] st.pc = "validate" -> IF st.empty THEN "substitute" ELSE "run_validators"
      [] OTHER -> "done"

\* FileField.clean (with django's FileField.clean): initial is returned
\* for no data when initial is set, else Field.clean runs
FileField_clean(f, st) ==
    CASE st.pc = "classify" -> IF st.empty /\ Truthy(f.initial) THEN "substitute" ELSE "coerce"
      [] st.pc = "coerce" -> "validate"
      [] st.pc = "validate" -> "run_validators"
      [] OTHER -> "done"

\* the stage that follows st.pc in the clean of f's class
next_stage(f, st) ==
    CASE f.type \in EmptyStringFixMixing -> EmptyStringFixMixing_clean(f, st)
      [] f.type \in InitialFixMixin -> InitialFixMixin_clean(f, st)
      [] f.type = "LowerCaseEmailField" -> LowerCaseEmailField_clean(f, st)
      [] OTHER -> FileField_clean(f, st)

\* a substitution that keeps the value in hand
substitute_initial_kept(f, st) == st.value

\* the value clean returns in place of the one in hand
substitute_initial(f, st) ==
    IF f.type \in InitialFixMixin
    THEN (IF st.value = None THEN f.initial ELSE st.value)
    ELSE f.initial

\* the validation of the stage "validate"
validate_call(f, st, now) ==
    IF f.type = "LowerCaseEmailField" /\ st.empty
    THEN (IF f.required THEN Err("required", None) ELSE Ok(st.value))
    ELSE validate(f, st.value, now)

\* the stage ends: on with the value, or the error is raised
Advance(f, st, r, coerced) ==
    IF r.ok
    THEN Return([st EXCEPT !.value = IF coerced THEN r.val ELSE st.value,
                           !.pc = next_stage(f, st)])
    ELSE Raise(st, r)

\* CLASSIFY
classify_stage(f, st, arg) ==
    [st EXCEPT !.value = arg, !.empty = IsEmpty(f, arg),
               !.pc = next_stage(f, [st EXCEPT !.empty = IsEmpty(f, arg)])]

\* COERCE
coerce_stage(f, st) == Advance(f, st, to_python(f, st.value), TRUE)

\* VALIDATE: validate
validate_stage(f, now, st) == Advance(f, st, validate_call(f, st, now), FALSE)

\* VALIDATE: run_validators
run_validators_stage(f, st) == Advance(f, st, run_validators(f, st.value), FALSE)

\* SUBSTITUTE_INITIAL
substitute_stage(f, st) ==
    Return([st EXCEPT !.value = substitute_initial(f, st), !.pc = next_stage(f, st)])

\* one stage of super().clean on f, for the invocation st
super_clean(f, now, st) ==
    CASE st.pc = "classify" -> classify_stage(f, st, IdArrayField_clean_arg(f, st.raw))
      [] st.pc = "coerce" -> coerce_stage(f, st)
      [] st.pc = "validate" -> validate_stage(f, now, st)
      [] st.pc = "run_validators" -> run_validators_stage(f, st)
      [] st.pc = "substitute" -> substitute_stage(f, st)
      [] OTHER -> st

\* IdField().clean(raw), start to end: IdField has no clean of its own
RECURSIVE IdField_run(_, _, _)
IdField_run(f, now, st) ==
    IF st.pc \in {"done", "error"} THEN st ELSE IdField_run(f, now, super_clean(f, now, st))

IdField_clean(f, now, raw) == IdField_run(f, now, Start(raw))

\* TimestampField.clean, after super().clean
TimestampField_clean(f, value) ==
    IF IsNum(value) /\ WIsZero(value.v) THEN Ok(DateTime(1970, 1, 1, 0, 0, 0, 0, UTC))
    ELSE IF value # None
    THEN LET dt == utcfromtimestamp(value.v)
         IN IF dt.ok THEN make_aware(dt.val) ELSE dt
    ELSE Ok(value)

\* DateTimeField.clean, after super().clean
DateTimeField_clean(f, value) ==
    LET base_type == IF f.type = "DateField" THEN {"date", "datetime"} ELSE {"datetime"}
    IN IF value # None /\ value.t \notin base_type
       THEN LET dt == strptime(value, f.mask)
            IN IF dt.ok THEN make_aware(dt.val) ELSE Err("invalid_format", None)
       ELSE Ok(value)

\* DateField.clean and MonthField.clean, after super().clean
DateField_clean(f, value) ==
    LET r == DateTimeField_clean(f, value)
    IN IF r.ok /\ r.val.t = "datetime" THEN Ok(DateOf(r.val)) ELSE r

\* the IdField() that IdArrayField.clean builds
IdArrayField_id_field(f) ==
    Construct([Kwargs("IdField") EXCEPT !.ID_FIELD_MAX_VALUE = f.ID_FIELD_MAX_VALUE])

\* the error a finished invocation raised
Raised(st) == Err(st.err, st.params)

\* the items that IdField().clean raised on are left out of the result
IdArrayField_items_skip(items) ==
    Ok(List([n \in 1..Len(SelectSeq(items, LAMBDA x : x.pc = "done")) |->
                SelectSeq(items, LAMBDA x : x.pc = "done")[n].ret]))

\* the first item that IdField().clean raised on ends the clean with its
\* error; else the cleaned items are the result
IdArrayField_items(items) ==
    LET bad == {n \in 1..Len(items) : items[n].pc = "error"}
    IN IF bad = {} THEN Ok(List([n \in 1..Len(items) |-> items[n].ret]))
       ELSE Raised(items[CHOOSE n \in bad : \A m \in bad : n <= m])

\* IdArrayField.clean, after super().clean: every item through IdField().clean
IdArrayField_clean(f, now, res) ==
    IF res.t = "list"
    THEN IdArrayField_items([n \in 1..Len(res.v) |->
                                IdField_clean(IdArrayField_id_field(f), now, res.v[n])])
    ELSE Ok(res)

\* set(res): the distinct items, in ascending order
RECURSIVE SetOf(_)
SetOf(items) ==
    IF items = <<>> THEN <<>>
    ELSE LET least == CHOOSE n \in 1..Len(items) : \A m \in 1..Len(items) : ~WLess(items[m].v, items[n].v)
             rest == SelectSeq(items, LAMBDA x : x # items[least])
         IN <<items[least]>> \o SetOf(rest)

\* IdSetField.clean: set(res) of what IdArrayField.clean returned
IdSetField_clean(f, r) ==
    IF f.type = "IdSetField" /\ r.ok /\ r.val.t = "list" THEN Ok(PySet(SetOf(r.val.v))) ELSE r

\* the part of the class's clean that runs after the pipeline
post_clean(f, now, value) ==
    CASE f.type = "TimestampField" -> TimestampField_clean(f, value)
      [] f.type = "DateTimeField" -> DateTimeField_clean(f, value)
      [] f.type \in {"DateField", "MonthField"} -> DateField_clean(f, value)
      [] f.type \in {"IdArrayField", "IdSetField"} ->
            IdSetField_clean(f, IdArrayField_clean(f, now, value))
      [] OTHER -> Ok(value)

\* the stage after super().clean
post_stage(f, st, r) ==
    IF r.ok THEN Return([st EXCEPT !.value = r.val, !.pc = "done"]) ELSE Raise(st, r)

\* one stage of the invocation st of clean on f
Step(f, now, st) ==
    IF st.pc = "post" THEN post_stage(f, st, post_clean(f, now, st.value))
    ELSE super_clean(f, now, st)

RECURSIVE Run(_, _, _)
Run(f, now, st) == IF st.pc \in {"done", "error"} THEN st ELSE Run(f, now, Step(f, now, st))

\* clean(raw) on f, start to end
CleanFn(f, now, raw) == Run(f, now, Start(raw))


\* ------------------------------------------------ the fields and inputs
\* The fields that are constructed and the raw values they are given:
\* for every class, each option set and unset, required or not, with and
\* without an initial value.

With(S, I) == {[k EXCEPT !.required = r, !.initial = i] : k \in S, r \in BOOLEAN, i \in I}

\* tests/test_fields.py, JsonFieldTest.TEST_SCHEMA
TEST_SCHEMA ==
    Schema("object", -1, -1, None,
           << <<<<"t","e","s","t">>, Schema("integer", -1, -1, None, <<>>, IntV(1))>> >>, None)
IntegerItems == Schema("integer", -1, -1, None, <<>>, None)

re_te_any == Pattern(<<Atom({"t"}), Atom({"e"}), Star(AnyChar)>>, TRUE)
re_te == Pattern(<<Atom({"t"}), Atom({"e"})>>, FALSE)
dt_2017 == DateTime(2017, 1, 1, 0, 0, 0, 0, UTC)

FieldKwargs ==
    LET K(ty) == Kwargs(ty) IN
    With({K("RestCharField"), [K("RestCharField") EXCEPT !.min_length = IntV(1)],
          [K("RestCharField") EXCEPT !.max_length = IntV(3)]},
         {Unset, Str(<<"a","b">>), Str(<<"a","b","c","d">>)})
    \cup With({K("RegexField"), [K("RegexField") EXCEPT !.regex = re_te_any],
               [K("RegexField") EXCEPT !.regex = re_te],
               [K("RegexField") EXCEPT !.regex = re_te_any, !.flags = Bool(TRUE)]},
              {Unset, Str(<<"t","e">>), Str(<<"x">>)})
    \cup With({K("UUIDField")}, {Unset, Str(<<"1","2","3","e","4","5","6","7","-","e","8","9","b","-","1","2","d","3","-","a","4","5","6","-","4","2","6","6","1","4","1","7","4","0","0","0">>)})
    \cup With({K("UrlField"), [K("UrlField") EXCEPT !.with_underscore_domain = Bool(FALSE)]},
              {Unset, Str(s_url)})
    \cup With({K("RestChoiceField"), [K("RestChoiceField") EXCEPT !.choices = List(<<>>)],
               [K("RestChoiceField") EXCEPT !.choices = List(<<Str(<<"a">>), Str(<<"b">>), Str(<<"c">>)>>)],
               [K("RestChoiceField") EXCEPT !.choices =
                    List(<<Tuple(<<Str(<<"a">>), Str(<<"A">>)>>), Tuple(<<Str(<<"b">>), Str(<<"B">>)>>), Tuple(<<Str(<<"c">>), Str(<<"C">>)>>)>>)],
               [K("RestChoiceField") EXCEPT !.choices =
                    List(<<Tuple(<<Str(<<"a">>), Str(<<"A">>)>>), Str(<<"b">>), Tuple(<<Str(<<"c">>), Str(<<"C">>)>>)>>)],
               [K("RestChoiceField") EXCEPT !.choices = List(<<IntV(1), IntV(2)>>)]},
              {Unset, Str(<<"a">>)})
    \cup With({K("DateUnitField")}, {Unset, Str(<<"d","a","y">>)})
    \cup With({K("RestIntegerField"),
               [K("RestIntegerField") EXCEPT !.min_value = IntV(0), !.max_value = IntV(10)]},
              {Unset, IntV(123), IntV(-1)})
    \cup With({K("RestFloatField"),
               [K("RestFloatField") EXCEPT !.min_value = IntV(0), !.max_value = IntV(10)]},
              {Unset, FloatV(123)})
    \cup With({K("PositiveIntegerField"), [K("PositiveIntegerField") EXCEPT !.with_zero = Bool(TRUE)]},
              {Unset, IntV(5)})
    \cup With({K("IdField"), [K("IdField") EXCEPT !.ID_FIELD_MAX_VALUE = IntV(100)]}, {Unset, IntV(5)})
    \cup With({K("TimestampField"), [K("TimestampField") EXCEPT !.in_future = Bool(TRUE)],
               [K("TimestampField") EXCEPT !.in_future = Bool(FALSE)]},
              {Unset, IntV(100), IntV(0), dt_2017})
    \cup With({K("DateTimeField")}, {Unset, dt_2017, Str(<<"2","0","1","7","-","0","1","-","0","1","T","0","0",":","0","0",":","0","0">>), Str(<<"b","a","d">>)})
    \cup With({K("DateField")}, {Unset, Date(2017, 1, 1), dt_2017, Str(<<"2","0","1","7","-","0","1","-","3","1">>)})
    \cup With({K("MonthField")}, {Unset, Str(<<"2","0","1","7","-","0","1">>), Date(2017, 1, 1)})
    \cup With({K("TimezoneField")}, {Unset, Str(<<"U","T","C">>)})
    \cup With({K("RestBooleanField")}, {Unset, Bool(TRUE), Bool(FALSE)})
    \cup With({K("LowerCaseEmailField")}, {Unset, Str(<<"t","e","s","t","@","m","a","i","l",".","r","u","1">>)})
    \cup With({K("ColorField")}, {Unset, Str(<<"a","f","a","f","a","f">>)})
    \cup With({K("HexField")}, {Unset, Str(<<"a","b">>)})
    \cup With({K("TruncatedCharField"), [K("TruncatedCharField") EXCEPT !.truncate_length = IntV(2)],
               [K("TruncatedCharField") EXCEPT !.truncate_length = None]}, {Unset, Str(<<"a","f","a","f","a","f">>)})
    \cup With({K("JsonField"), [K("JsonField") EXCEPT !.json_schema = TEST_SCHEMA]},
              {Unset, Dict(<< <<Str(<<"t","e","s","t">>), Bool(TRUE)>> >>)})
    \cup With({K("ArrayField"), [K("ArrayField") EXCEPT !.item_schema = IntegerItems],
               [K("ArrayField") EXCEPT !.min_items = IntV(1)],
               [K("ArrayField") EXCEPT !.max_items = IntV(2)],
               [K("ArrayField") EXCEPT !.max_items = IntV(0)]},
              {Unset, List(<<IntV(1), IntV(2), IntV(3)>>)})
    \cup With({K("IdArrayField"), K("IdSetField"),
               [K("IdArrayField") EXCEPT !.ID_FIELD_MAX_VALUE = IntV(1)],
               [K("IdSetField") EXCEPT !.ID_FIELD_MAX_VALUE = IntV(1)]},
              {Unset, List(<<IntV(1), IntV(2)>>), List(<<IntV(0)>>)})
    \cup With({K("FileField"),
               [K("FileField") EXCEPT !.valid_extensions = List(<<Str(<<"p","d","f">>), Str(<<"p","n","g">>)>>)],
               [K("FileField") EXCEPT !.valid_extensions = List(<<Str(<<"P","D","F">>)>>)],
               [K("FileField") EXCEPT !.max_size = IntV(4)]},
              {Unset, File(<<"i","n","i","t",".","t","x","t">>, 1)})

\* the current time, to_timestamp(now())
NowSeconds == 1700000000
Now == Wide(NowSeconds)
Int32Max == Wide(TimestampField_max_value)

\* aware UTC datetimes at a whole second: the epoch and the second after it,
\* the date of TimestampFieldTest.test_timezones, the current time and the
\* second after it, and the last second of the 32-bit range
RoundTripDates ==
    {DateTime(1970, 1, 1, 0, 0, 0, 0, UTC), DateTime(1970, 1, 1, 0, 0, 1, 0, UTC), dt_2017,
     DateTime(2023, 11, 14, 22, 13, 20, 0, UTC), DateTime(2023, 11, 14, 22, 13, 21, 0, UTC),
     DateTime(2038, 1, 19, 3, 14, 7, 0, UTC)}

\* the raw values a field of the class is given
RawValues(ty) ==
    {None, Str(<<>>)} \cup
    CASE ty \in {"RestCharField", "TruncatedCharField"} ->
            {Str(<<"a","b">>), Str(<<" ","a","b"," ">>), Str(<<"a","b","c","d">>), IntV(5)}
      [] ty = "RegexField" -> {Str(<<"t","e">>), Str(<<"t","e","s">>), Str(<<"x","t","e">>), Str(<<"T","E">>), Str(<<"t","e","s","t">>)}
      [] ty = "UUIDField" -> {Str(<<"1","2","3","e","4","5","6","7","-","e","8","9","b","-","1","2","d","3","-","a","4","5","6","-","4","2","6","6","1","4","1","7","4","0","0","0">>), Str(<<"n","o","t","_","u","u","i","d">>)}
      [] ty = "UrlField" -> {Str(s_url), Str(<<" ">> \o s_url), Str(s_url_underscore), Str(<<"n","o","t","_","u","r","l">>)}
      [] ty = "RestChoiceField" -> {Str(<<"a">>), Str(<<"b">>), Str(<<"d">>), Str(<<"1">>), IntV(1), Str(<<"A">>)}
      [] ty = "DateUnitField" -> {Str(<<"d","a","y">>), Str(<<"h","o","u","r">>), Str(<<"s","o","m","e","t","h","i","n","g">>)}
      [] ty \in {"RestIntegerField", "PositiveIntegerField", "IdField"} ->
            {IntV(0), IntV(1), IntV(-1), IntV(10), IntV(11), IntV(100), IntV(101), Str(<<"1">>),
             Str(<<"1",".","0">>), Str(<<"x">>), FloatW(WHalf(Wide(1))), List(<<>>)}
      [] ty = "RestFloatField" ->
            {IntV(0), IntV(-1), IntV(10), IntV(11), FloatW(WHalf(Wide(1))), FloatW(WHalf(Wide(10))),
             Str(<<"1",".","5">>), Str(<<"x">>)}
      [] ty = "TimestampField" ->
            {IntV(0), IntV(1), IntV(-1), IntV(100000000), IntW(Now), IntW(WSucc(Now)),
             IntW(Int32Max), IntW(WSucc(Int32Max)), IntW(WideOf(FALSE, 61035, 10240, 0)),
             IntV(2147483646), IntW(WNeg(WSucc(Int32Max))),
             FloatW(WNeg(WHalf(Wide(0)))), FloatW(WHalf(Int32Max)), FloatW(WNeg(Wide(0))),
             FloatW(WHalf(Wide(0))), Str(<<"1","0","0">>), Str(<<"x">>), dt_2017}
            \cup {to_timestamp(dt) : dt \in RoundTripDates}
      [] ty = "DateTimeField" -> {Str(<<"2","0","1","7","-","0","1","-","0","1","T","0","0",":","0","0",":","0","0">>), Str(<<"2","0","1","7","-","0","1","-","3","1">>), Str(<<"b","a","d">>)}
      [] ty = "DateField" -> {Str(<<"2","0","1","7","-","0","1","-","3","1">>), Str(<<"2","0","1","7","-","0","2","-","3","0">>), Str(<<"2","0","1","7","-","0","1">>), Str(<<"2","0","1","7","-","0","1","-","0","1","T","0","0",":","0","0",":","0","0">>)}
      [] ty = "MonthField" -> {Str(<<"2","0","1","7","-","0","1">>), Str(<<"2","0","1","7","-","1","3">>), Str(<<"2","0","1","7","-","0","1","-","3","1">>)}
      [] ty = "TimezoneField" -> {Str(<<"U","T","C">>), Str(<<"M","a","r","s","/","B","a","s","e">>)}
      [] ty = "RestBooleanField" ->
            {Str(<<"t","r","u","e">>), Str(<<"T","R","U","E">>), Str(<<"1">>), Str(<<"f","a","l","s","e">>), Str(<<"F","A","L","S","E">>), Str(<<"F","a","l","s","e">>), Str(<<"0">>),
             Str(<<"s","o","m","e","_","t","e","x","t">>), Str(<<" ">>), Bool(TRUE), Bool(FALSE), IntV(0), IntV(1), List(<<>>)}
      [] ty = "LowerCaseEmailField" -> {Str(<<"T","e","S","t","@","m","a","i","l",".","r","u","1">>), Str(<<"t","e","s","t","@","m","a","i","l",".","r","u","1">>), Str(<<"n","o","t","_","u","r","l">>)}
      [] ty = "ColorField" -> {Str(<<"a","f","a","f","a","f">>), Str(<<"A","F","A","F","A","F">>), Str(<<"t","e","s","t">>), Str(<<"a","f","a","f","a","f","0">>), Str(<<"a","f","a","f","a","g">>)}
      [] ty = "HexField" -> {Str(<<"a","b","c","1","2","3">>), Str(<<"A","B","C">>), Str(<<"x","y","z">>), Str(<<"a"," ","b">>), Str(<<"-">>)}
      [] ty = "JsonField" ->
            {Str(<<"n","u","l","l">>), Str(<<"{","}">>), Str(<<"[","]">>), Str(<<"{","\"","t","e","s","t","\"",":","1","}">>), Str(<<"{","\"","t","e","s","t","\"",":","0","}">>), Str(<<"[","1",",","2",",","3">>), List(<<>>), Dict(<<>>),
             Dict(<< <<Str(<<"t","e","s","t">>), IntV(0)>> >>), IntV(5), Bool(TRUE)}
      [] ty = "ArrayField" ->
            {Str(<<"[","1",","," ","2",","," ","3","]">>), Str(<<"{","}">>), Str(<<"[","1",",","2",",","3">>), Str(<<"1",",","2",",","3">>), Str(<<"a",",","b">>), Str(<<"[","]">>),
             List(<<IntV(1), IntV(2), IntV(3)>>), List(<<>>), Dict(<<>>), IntV(5),
             Str(<<"a",",",",","b">>), Str(<<"1",",","x">>), Str(<<"a","]">>)}
      [] ty \in {"IdArrayField", "IdSetField"} ->
            {Str(<<"1",",","2">>), Str(<<"[","1",",","1","]">>), Str(<<"0",",","1">>), Str(<<"x">>), Str(<<"[","]">>), List(<<IntV(2), IntV(1), IntV(2)>>),
             List(<<IntV(0)>>), PySet(<<IntV(1), IntV(2)>>), Dict(<<>>),
             List(<<IntV(1), IntV(-1)>>), PySet(<<IntV(0), IntV(1)>>), Str(<<"1",",">>)}
      [] ty = "FileField" ->
            {Str(<<"1","2","3">>), File(<<"t","e","s","t",".","p","d","f">>, 4), File(<<"T","E","S","T",".","P","D","F">>, 5), File(<<"t","e","s","t",".","t","x","t">>, 4),
             File(<<"t","e","s","t",".","p","d","f">>, 0), File(<<"R","E","A","D","M","E">>, 1), File(<<>>, 1)}
      [] OTHER -> {}

\* ------------------------------------------------------ the state machine

\* clean calls made on one field
MaxCalls == 2

\* threads that call clean on one shared field
MaxThreads == 2
Threads == 1..MaxThreads

VARIABLES
    field,   \* the field object: its configuration and _match
    call,    \* the clean invocation in progress, or the last one
    calls,   \* how many clean calls the field has served
    threads  \* the clean invocation of each thread that shares the field

vars == <<field, call, calls, threads>>

Idle == [Start(None) EXCEPT !.pc = "idle"]

Init ==
    /\ field \in {Construct(kw) : kw \in FieldKwargs}
    /\ call = Idle
    /\ calls = 0
    /\ threads = <<>>

\* START: field.clean(raw) is called
Clean ==
    /\ call.pc \in {"idle", "done", "error"}
    /\ calls < MaxCalls
    /\ \E raw \in RawValues(field.type) : call' = Start(raw)
    /\ calls' = calls + 1
    /\ UNCHANGED <<field, threads>>

\* CLASSIFY: is the argument "no value"?
Classify ==
    /\ call.pc = "classify"
    /\ call' = classify_stage(field, call, IdArrayField_clean_arg(field, call.raw))
    /\ UNCHANGED <<field, calls, threads>>

\* COERCE: to_python
Coerce ==
    /\ call.pc = "coerce"
    /\ call' = coerce_stage(field, call)
    /\ UNCHANGED <<field, calls, threads>>

\* VALIDATE: validate, which in a RegexField also stores the match
Validate ==
    /\ call.pc = "validate"
    /\ call' = validate_stage(field, Now, call)
    /\ field' = IF field.type \in RegexFieldTypes
                THEN [field EXCEPT !._match = RegexField_match(field, call.value)]
                ELSE field
    /\ UNCHANGED <<calls, threads>>

\* VALIDATE, second part: run_validators
RunValidators ==
    /\ call.pc = "run_validators"
    /\ call' = run_validators_stage(field, call)
    /\ UNCHANGED <<field, calls, threads>>

\* SUBSTITUTE_INITIAL
SubstituteInitial ==
    /\ call.pc = "substitute"
    /\ call' = substitute_stage(field, call)
    /\ UNCHANGED <<field, calls, threads>>

\* the rest of a clean that overrides the pipeline's
PostProcess ==
    /\ call.pc = "post"
    /\ call' = post_stage(field, call, post_clean(field, Now, call.value))
    /\ UNCHANGED <<field, calls, threads>>

Next ==
    \/ Clean
    \/ Classify
    \/ Coerce
    \/ Validate
    \/ RunValidators
    \/ SubstituteInitial
    \/ PostProcess

Spec == Init /\ [][Next]_vars

\* ------------------------------------- one field shared between threads
\* Each thread calls clean once on the same RegexField or UUIDField, the
\* classes whose validate is RegexField.validate. The stages of a
\* call work on the thread's own values; RegexField.validate stores the
\* match in the field (self._match = ...) and then tests what the field
\* holds (if not self._match), and another thread can run between the two.

ConcInit ==
    /\ field \in {Construct(kw) : kw \in {k \in FieldKwargs : k.type \in {"RegexField", "UUIDField"}}}
    /\ call = Idle
    /\ calls = 0
    /\ threads = [t \in Threads |-> Idle]

\* thread t calls field.clean(raw)
ThreadClean(t) ==
    /\ threads[t].pc = "idle"
    /\ \E raw \in RawValues(field.type) : threads' = [threads EXCEPT ![t] = Start(raw)]
    /\ UNCHANGED <<field, call, calls>>

\* a stage of thread t's call that reads the field only
ThreadStage(t) ==
    /\ threads[t].pc \in {"classify", "coerce", "run_validators", "substitute"}
    /\ threads' = [threads EXCEPT ![t] = super_clean(field, Now, threads[t])]
    /\ UNCHANGED <<field, call, calls>>

\* RegexField.validate up to the assignment: super().validate, then
\* self._match = re.match(self.regex, str(value), self.flags)
ThreadStoreMatch(t) ==
    LET st == threads[t]
        r == EmptyStringFixMixing_validate(field, st.value)
    IN /\ st.pc = "validate"
       /\ IF r.ok /\ st.value # None /\ Truthy(field.regex)
          THEN /\ field' = [field EXCEPT !._match = ReMatch(field.regex, PyStr(st.value), field.flags)]
               /\ threads' = [threads EXCEPT ![t].pc = "test_match"]
          ELSE /\ field' = field
               /\ threads' = [threads EXCEPT ![t] = Advance(field, st, r, FALSE)]
       /\ UNCHANGED <<call, calls>>

\* RegexField.validate from the test on: if not self._match: raise
ThreadTestMatch(t) ==
    LET st == [threads[t] EXCEPT !.pc = "validate"]
    IN /\ threads[t].pc = "test_match"
       /\ threads' = [threads EXCEPT ![t] =
                          Advance(field, st, IF field._match = None THEN Err("regex", None)
                                             ELSE Ok(st.value), FALSE)]
       /\ UNCHANGED <<field, call, calls>>

ConcNext ==
    \E t \in Threads :
        \/ ThreadClean(t)
        \/ ThreadStage(t)
        \/ ThreadStoreMatch(t)
        \/ ThreadTestMatch(t)

ConcSpec == ConcInit /\ [][ConcNext]_vars



\* ------------------------------------------------------------ properties

Finished == call.pc \in {"done", "error"}

\* what the caller of clean sees
Outcome(st) == <<st.pc, st.err, st.params, st.ret>>

\* the constructor arguments that give this field
Configured ==
    {kw \in FieldKwargs : kw.type = field.type /\ Construct(kw) = [field EXCEPT !._match = None]}

\* the initial values a field of this class is constructed with
Initials == {None} \cup {Construct(kw).initial : kw \in {k \in FieldKwargs : k.type = field.type}}

\* C1: a field constructed without an initial value returns None for
\* clean(None) when it is not required, and raises 'required' when it is.
C1_AbsentWithoutInitial ==
    (Finished /\ call.raw = None /\ field.initial = None) =>
        IF field.required THEN call.pc = "error" /\ call.err = "required"
        ELSE call.pc = "done" /\ call.ret = None

C1_RequiredRaised ==
    /\ call.pc = "error" /\ call.err = "required"
    /\ call.raw = None /\ field.initial = None /\ field.required

\* C2 (as stated): clean(None) on a required field raises 'required', with
\* or without an initial value; the initial value is not returned.
C2_RequiredBeforeInitial ==
    (Finished /\ call.raw = None /\ field.required) =>
        (call.pc = "error" /\ call.err = "required")

\* C3 (as stated): clean(None) on a field that is not required returns the
\* configured initial value itself, whatever the class.
C3_InitialIdentity ==
    (Finished /\ call.raw = None /\ ~field.required) =>
        \A kw \in Configured :
            kw.initial # Unset => (call.pc = "done" /\ call.ret = kw.initial)

\* C3 (amended): clean(None) on a field that is not required returns the
\* configured initial value itself, except in the classes whose clean works
\* on what the pipeline returned: TimestampField returns the UTC datetime of
\* the initial timestamp, DateTimeField, DateField and MonthField parse a
\* string initial with the mask (and raise when it does not match),
\* DateField returns the date of a datetime initial, IdArrayField and
\* IdSetField clean every item of the initial list (and raise on a bad one).
C3_InitialReturned ==
    (Finished /\ call.raw = None /\ ~field.required /\ field.initial # None) =>
        IF field.type \in PostProcessing
        THEN LET r == post_clean(field, Now, field.initial)
             IN /\ IF r.ok THEN call.pc = "done" /\ call.ret = r.val
                   ELSE call.pc = "error" /\ call.err = r.err
                /\ (field.type = "TimestampField" /\ call.pc = "done") =>
                       /\ call.ret.t = "datetime" /\ call.ret.v.tz = UTC
                       /\ WEq(to_timestamp(call.ret).v, field.initial.v)
                /\ (field.type \in DateTimeFieldTypes /\ IsStr(field.initial) /\ call.pc = "done") =>
                       call.ret.t \in {"datetime", "date"}
                /\ (field.type \in {"IdArrayField", "IdSetField"} /\ call.pc = "done") =>
                       call.ret.t = IF field.type = "IdSetField" THEN "set" ELSE "list"
        ELSE /\ call.pc = "done" /\ call.ret = field.initial
             /\ \A kw \in Configured : call.ret = kw.initial

C3_TimestampInitialConverted ==
    /\ field.type = "TimestampField" /\ ~field.required /\ field.initial = IntV(100)
    /\ call.raw = None /\ call.pc = "done" /\ call.ret.t = "datetime"

\* C4: for a raw value the class does not take for "no value", fields that
\* differ only in initial give the same outcome: initial is not substituted,
\* not even when the value coerces to None.
C4_InitialNotSubstituted ==
    (Finished /\ ~IsEmpty(field, IdArrayField_clean_arg(field, call.raw))) =>
        \A i \in Initials :
            Outcome(CleanFn([field EXCEPT !.initial = i], Now, call.raw)) = Outcome(call)

C4_JsonNullReturned ==
    /\ field.type = "JsonField" /\ field.initial # None
    /\ call.raw = Str(<<"n","u","l","l">>) /\ call.pc = "done" /\ call.ret = None

\* the place of a stage in the order of the pipeline
Rank(pc) ==
    CASE pc = "classify" -> 1
      [] pc = "coerce" -> 2
      [] pc = "validate" -> 3
      [] pc = "run_validators" -> 4
      [] pc = "substitute" -> 5
      [] pc = "post" -> 6
      [] pc = "done" -> 7
      [] OTHER -> 0

InProgress == call.pc \notin {"idle", "done", "error"}

\* the invocation c of clean on f ended with a return and no error, or with
\* a raise and nothing returned, or is in progress with nothing returned or
\* raised and a stage to take
OneOutcome(f, c) ==
    /\ c.pc = "done" => (c.ret # NoReturn /\ c.err = "")
    /\ c.pc = "error" => (c.ret = NoReturn /\ c.err # "")
    /\ c.pc \notin {"done", "error"} => (c.ret = NoReturn /\ c.err = "")
    /\ c.pc \notin {"idle", "done", "error"} => Step(f, Now, c) # c

InOrder ==
    (InProgress /\ call'.pc # "error") => Rank(call.pc) < Rank(call'.pc)

PatternRejects(f, s) ==
    CASE f.type \in RegexFieldTypes -> Truthy(f.regex) /\ ReMatch(f.regex, s, f.flags) = None
      [] f.type = "ColorField" -> ~(Len(s) = 6 /\ \A n \in 1..Len(s) : IsDigit(s[n]) \/ s[n] \in HexLetters)
      [] OTHER -> FALSE

\* C7 (as stated): in a field built on EmptyStringFixMixing, clean('') does
\* not raise 'required', does not return the initial value, and raises when
\* '' fails min_length or the pattern.
C7_EmptyStringProvided ==
    (Finished /\ field.type \in EmptyStringFixMixing /\ call.raw = Str(<<>>)) =>
        /\ ~(call.pc = "error" /\ call.err = "required")
        /\ Outcome(call) = Outcome(CleanFn([field EXCEPT !.initial = None], Now, call.raw))
        /\ (field.min_length # None /\ WLess(Wide(0), field.min_length.v)) => call.pc = "error"
        /\ PatternRejects(field, <<>>) => call.pc = "error"

\* C8: RestBooleanField.clean gives False for 'false', '0' and '' in any
\* letter case, the truthiness of any other value that is not None, and for
\* None the 'required' error or, when not required, the initial value (None
\* when there is none).
C8_BooleanTable ==
    (Finished /\ field.type = "RestBooleanField") =>
        IF call.raw = None
        THEN IF field.required THEN call.pc = "error" /\ call.err = "required"
             ELSE call.pc = "done" /\ call.ret = field.initial
        ELSE /\ call.pc = "done"
             /\ call.ret = Bool(IF IsStr(call.raw)
                                THEN Lower(call.raw.v) \notin {<<"f","a","l","s","e">>, <<"0">>, <<>>}
                                ELSE Truthy(call.raw))
             /\ call.raw \in {Str(<<"F","a","l","s","e">>), Str(<<"F","A","L","S","E">>), Str(<<>>)}
                    => call.ret = Bool(FALSE)
             /\ call.raw \in {Str(<<"t","r","u","e">>), Str(<<"1">>), Str(<<" ">>)}
                    => call.ret = Bool(TRUE)

C8_MixedCaseFalse ==
    /\ field.type = "RestBooleanField" /\ field.required
    /\ call.raw = Str(<<"F","a","l","s","e">>) /\ call.pc = "done" /\ call.ret = Bool(FALSE)

\* the choice values as the constructor is given them
DeclaredValues(kw) ==
    LET declared == IF kw.type = "DateUnitField" THEN UNIT_CHOICES
                    ELSE IF kw.choices = Unset THEN <<>> ELSE kw.choices.v
    IN {IF declared[n].t = "tuple" THEN declared[n].v[1] ELSE declared[n] : n \in 1..Len(declared)}

\* C9 (as stated): clean(v) of a RestChoiceField, v not None, succeeds when
\* v is one of the configured choice values and otherwise raises
\* 'invalid_choice' carrying v.
C9_AcceptedIffChoice ==
    (Finished /\ field.type \in ChoiceFieldTypes /\ call.raw # None) =>
        \A kw \in Configured :
            IF call.raw \in DeclaredValues(kw) THEN call.pc = "done"
            ELSE call.pc = "error" /\ call.err = "invalid_choice" /\ call.params = call.raw

\* C9 (amended): with choices configured, clean(v), v not None, succeeds
\* when str(v) is the str() of a configured choice value, and returns
\* str(v); with no choices configured it succeeds for '' only; otherwise it
\* raises 'invalid_choice' carrying str(v). Bare values, pairs and a mix of
\* both with the same values accept the same.
C9_AcceptedIffChoiceText ==
    (Finished /\ field.type \in ChoiceFieldTypes /\ call.raw # None) =>
        \A kw \in Configured :
            LET text == PyStr(call.raw)
                accepted == IF DeclaredValues(kw) = {} THEN text = <<>>
                            ELSE \E k \in DeclaredValues(kw) : PyStr(k) = text
            IN /\ IF accepted THEN call.pc = "done" /\ call.ret = Str(text)
                  ELSE call.pc = "error" /\ call.err = "invalid_choice" /\ call.params = Str(text)
               /\ \A other \in FieldKwargs :
                      (other.type = kw.type /\ DeclaredValues(other) = DeclaredValues(kw)) =>
                          (CleanFn(Construct(other), Now, call.raw).pc = "done") = accepted

C9_EmptyStringWithoutChoices ==
    /\ field.type = "RestChoiceField" /\ field.choices = <<>>
    /\ call.raw = Str(<<>>) /\ call.pc = "done" /\ call.ret = Str(<<>>)

\* C10: a TimestampField that allows the future accepts a number ts when
\* 0 <= ts <= 2147483647 and raises a validation error when ts < 0 or
\* ts > 2147483647.
C10_TimestampRange ==
    (Finished /\ field.type = "TimestampField" /\ field.in_future /\ IsNum(call.raw)) =>
        IF ~WLess(call.raw.v, Wide(0)) /\ ~WLess(Int32Max, call.raw.v)
        THEN call.pc = "done" /\ call.ret.t = "datetime"
        ELSE call.pc = "error" /\ call.err \in {"min_value", "max_value"}

C10_UpperBoundAccepted ==
    /\ field.type = "TimestampField" /\ field.in_future
    /\ call.raw = IntW(Int32Max) /\ call.pc = "done"

\* C11: the timestamp of an aware UTC datetime at a whole second of the
\* 32-bit range, given to clean of a TimestampField that does not reject
\* it as a future time, comes back as that datetime, aware in UTC; the
\* epoch comes back from clean(0).
C11_TimestampRoundTrip ==
    (Finished /\ field.type = "TimestampField" /\ IsNum(call.raw)
        /\ (field.in_future \/ ~WLess(Now, call.raw.v))) =>
        /\ \A dt \in RoundTripDates :
               call.raw = to_timestamp(dt) =>
                   /\ call.pc = "done" /\ call.ret = dt /\ call.ret.v.tz = UTC
                   /\ to_timestamp(call.ret) = call.raw
        /\ call.raw = IntV(0) =>
               (call.pc = "done" /\ call.ret = DateTime(1970, 1, 1, 0, 0, 0, 0, UTC))

C11_LastSecondRoundTrip ==
    /\ field.type = "TimestampField"
    /\ call.raw = to_timestamp(DateTime(2038, 1, 19, 3, 14, 7, 0, UTC))
    /\ call.pc = "done" /\ call.ret = DateTime(2038, 1, 19, 3, 14, 7, 0, UTC)

\* C12 (as stated): a TimestampField rejects an in-range timestamp later
\* than the current time unless it was constructed with in_future=True: a
\* field constructed without in_future, or with in_future=False, raises for
\* a later timestamp and accepts one that is not later; a field constructed
\* with in_future=True accepts both.
C12_FutureRejectedUnlessAllowed ==
    (Finished /\ field.type = "TimestampField" /\ IsNum(call.raw)
        /\ ~WLess(call.raw.v, Wide(0)) /\ ~WLess(Int32Max, call.raw.v)) =>
        \A kw \in Configured :
            IF kw.in_future # Bool(TRUE) /\ WLess(Now, call.raw.v)
            THEN call.pc = "error"
            ELSE call.pc = "done"

\* the pattern matches the whole of s, not only a prefix of it
FullMatch(regex, s, ignorecase) ==
    Len(s) + 1 \in MatchEnds(regex.v.atoms, 1, s, 1, ignorecase)

\* C13 (as stated): clean(v) of a RegexField with a regex, v not None,
\* succeeds when the pattern matches the whole of str(v), under the
\* configured flags, and raises otherwise: a value of which only a prefix
\* matches is rejected.
C13_WholeValueMatches ==
    (Finished /\ field.type = "RegexField" /\ Truthy(field.regex) /\ call.raw # None) =>
        (call.pc = "done") = FullMatch(field.regex, Strip(PyStr(call.raw)), field.flags)

\* C14 (as stated): clean(v) of a ColorField, v a string, succeeds when v
\* is six characters, each of 0-9 and a-f, and raises for every other
\* string, the empty string among them.
C14_SixLowercaseHex ==
    (Finished /\ field.type = "ColorField" /\ IsStr(call.raw)) =>
        (call.pc = "done") =
            (Len(call.raw.v) = 6
                /\ \A n \in 1..Len(call.raw.v) : IsDigit(call.raw.v[n]) \/ call.raw.v[n] \in HexLetters)

\* C15 (as stated): clean(v) of a HexField, v a string, succeeds only when
\* every character of v is one of 0-9 and a-f; a string with any other
\* character raises.
C15_OnlyLowercaseHex ==
    (Finished /\ field.type = "HexField" /\ IsStr(call.raw)) =>
        IF \A n \in 1..Len(call.raw.v) : IsDigit(call.raw.v[n]) \/ call.raw.v[n] \in HexLetters
        THEN TRUE
        ELSE call.pc = "error"

\* the commas of s, and the substrings they separate
Commas(s) == {n \in 1..Len(s) : s[n] = ","}
Pieces(s) ==
    LET cuts == {0} \cup Commas(s) \cup {Len(s) + 1}
        Nth(k) == CHOOSE x \in cuts : Cardinality({y \in cuts : y < x}) = k - 1
    IN [k \in 1..(Cardinality(Commas(s)) + 1) |-> SubSeq(s, Nth(k) + 1, Nth(k + 1) - 1)]
RECURSIVE JoinCommas(_)
JoinCommas(parts) ==
    IF Len(parts) = 1 THEN parts[1] ELSE parts[1] \o <<",">> \o JoinCommas(Tail(parts))

\* the outcome is the return of x when the schema of the field accepts x,
\* and an error when it does not
ReturnsIfValid(x) ==
    IF JsonField_validate(field, x).ok THEN call.pc = "done" /\ call.ret = x ELSE call.pc = "error"

GivenList(raw) ==
    IF raw.t = "list" THEN raw
    ELSE IF IsStr(raw) /\ JsonLoads(raw.v).ok /\ JsonLoads(raw.v).val.t = "list"
    THEN JsonLoads(raw.v).val
    ELSE None

\* C17 (as stated): an ArrayField constructed with min_items, max_items
\* (any number from 0 up) or item_schema raises when the array has fewer
\* than min_items or more than max_items items or holds an item the item
\* schema rejects, and accepts the array otherwise.
C17_ItemLimitsEnforced ==
    (Finished /\ field.type = "ArrayField" /\ GivenList(call.raw) # None) =>
        \A kw \in Configured :
            LET items == GivenList(call.raw).v
                within == /\ kw.min_items # Unset => Len(items) >= WInt(kw.min_items.v)
                          /\ kw.max_items # Unset => Len(items) <= WInt(kw.max_items.v)
                conform == kw.item_schema # Unset =>
                               \A n \in 1..Len(items) : SchemaAccepts(items[n], kw.item_schema)
            IN (call.pc = "done") = (within /\ conform)

\* C18 (as stated): clean of a FileField on a file handle returns the
\* handle when the extension of its name is in valid_extensions, letter
\* case of the name and of the entries set aside, and its size is at most
\* max_size; it raises FileTypeError with the extension and the allowed
\* extensions when the extension is not allowed, and FileSizeError with the
\* limit and the size when the size is above max_size.
C18_ExtensionAndSize ==
    (Finished /\ field.type = "FileField" /\ call.raw.t = "file"
        /\ call.raw.v.name # <<>> /\ call.raw.v.size > 0) =>
        LET ext == ExtOf(call.raw.v.name)
            entries == field.valid_extensions.v
            allowed == field.valid_extensions = None
                       \/ \E n \in 1..Len(entries) : Lower(entries[n].v) = Lower(ext)
            small == field.size = None \/ call.raw.v.size <= WInt(field.size.v)
        IN IF ~allowed
           THEN /\ call.pc = "error" /\ call.err = "file_type"
                /\ Lower(call.params.v[1].v) = Lower(ext)
                /\ call.params.v[2] = field.valid_extensions
           ELSE IF ~small
           THEN /\ call.pc = "error" /\ call.err = "file_size"
                /\ call.params = List(<<field.size, IntV(call.raw.v.size)>>)
           ELSE call.pc = "done" /\ call.ret = call.raw

\* the field is as its constructor left it
AsConstructed == field \in {Construct(kw) : kw \in FieldKwargs}

\* every finished call of a thread ended as the same call ends alone
SameAsAlone ==
    \A t \in DOMAIN threads :
        threads[t].pc \in {"done", "error"} =>
            Outcome(threads[t]) = Outcome(CleanFn([field EXCEPT !._match = None], Now, threads[t].raw))

\* C19 (as stated): a clean call changes no attribute of the field, and
\* under every interleaving of the clean calls of threads that share one
\* field each call ends as it would have ended alone.
C19_NoSharedMutableState == AsConstructed /\ SameAsAlone

\* C20: clean(v) of a JsonField returns a list or dict v as it is, an
\* empty one on a required field too; parses a string v as JSON and raises
\* when it does not parse; raises for a v of any other type. What is
\* decoded is then held against 'required' and the schema of the field.
C20_JsonCoercion ==
    (Finished /\ field.type = "JsonField" /\ call.raw # None) =>
        LET Accepted(x) == /\ ~(x = None /\ field.required)
                           /\ (field.json_schema # None /\ x # None) => SchemaAccepts(x, field.json_schema)
            Returned(x) == IF Accepted(x)
                           THEN call.pc = "done" /\ call.ret = x
                           ELSE call.pc = "error"
        IN /\ CASE call.raw.t \in {"list", "dict"} -> Returned(call.raw)
                [] IsStr(call.raw) ->
                     IF JsonLoads(call.raw.v).ok THEN Returned(JsonLoads(call.raw.v).val)
                     ELSE call.pc = "error" /\ call.err = "json_not_parsed"
                [] OTHER -> call.pc = "error" /\ call.err = "invalid_json"
           /\ (call.raw \in {List(<<>>), Dict(<<>>)} /\ field.required /\ field.json_schema = None) =>
                  (call.pc = "done" /\ call.ret = call.raw)

C20_EmptyListOnRequired ==
    /\ field.type = "JsonField" /\ field.required /\ field.json_schema = None
    /\ call.raw = List(<<>>) /\ call.pc = "done" /\ call.ret = List(<<>>)

\* C21 (as stated): after any sequence of clean calls on a RegexField with
\* a regex, match is the match object of the value of the last call when
\* that value matched the pattern, and None otherwise; it is never the
\* match object of an earlier call.
C21_MatchOfLastCall ==
    (Finished /\ field.type = "RegexField" /\ Truthy(field.regex)) =>
        field._match = IF call.raw = None THEN None
                       ELSE ReMatch(field.regex, Strip(PyStr(call.raw)), field.flags)

\* the items that clean of an IdArrayField or IdSetField is given: those of
\* a list or a set, of JSON text that is a list, or the substrings between
\* the commas of other text
GivenItems(raw) ==
    IF raw.t \in {"list", "set"} THEN raw.v
    ELSE IF GivenList(raw) # None THEN GivenList(raw).v
    ELSE [n \in 1..Len(Pieces(raw.v)) |-> Str(Pieces(raw.v)[n])]

C23_InitialNotValidated ==
    (Finished /\ call.raw = None /\ ~field.required
        /\ field.type \in {"RestIntegerField", "RestFloatField", "RestCharField",
                            "RegexField", "RestChoiceField"}) =>
        /\ call.pc = "done" /\ call.ret = field.initial
        /\ \A kw \in Configured : kw.initial # Unset => call.ret = kw.initial

C23_RejectedInitialReturned ==
    /\ field.type = "RestCharField" /\ ~field.required /\ field.initial # None
    /\ CleanFn(field, Now, field.initial).pc = "error"
    /\ call.raw = None /\ call.pc = "done" /\ call.ret = field.initial

====
